---- MODULE Spec2Model ----
(***************************************************************************)
(* Model of src/main.py of MCS_Activity_Recognition: the experiment grid   *)
(* driver (datasets x noise x generation method x selection method), the   *)
(* per-fold pool generation and evaluation, and the aggregation done by    *)
(* save_metrics.                                                           *)
(*                                                                         *)
(* Python lists are sequences (index f of the code is index f+1 here).     *)
(* A label value v names the canonical class activities_list[v].           *)
(***************************************************************************)
EXTENDS Integers, Sequences, FiniteSets, TLC

(***************************************************************************)
(* Bounds of the exploration.                                              *)
(***************************************************************************)
\* most folds a dataset of the fold store holds
MaxFolds == 2
\* most test examples a dataset holds over all its folds
MaxExamples == 3
\* labels of the label encoding are 0..MaxLabel
MaxLabel == 1
\* most classes of a canonical class list (activities)
MaxClasses == 2
\* datasets of the `datasets` list the driver goes through
MaxDatasets == 2
\* noise levels of range(0, 6) the driver goes through
MaxNoise == 2

(***************************************************************************)
(* Program constants.                                                      *)
(***************************************************************************)
params ==
    << <<70, 80, 80, 80, 50, 90>>, <<60, 60, 30, 40, 60, 50>>,
       <<90, 80, 80, 90, 80, 90>>, <<50, 60, 20, 20, 20, 60>>,
       <<100, 80, 90, 90, 90, 80>> >>

n_estimators == 100

PoolWorkers == 5

NoiseLevels == 6

baseline == <<"RandomForestClassifier">>

gen_methods == <<"BaggingClassifier", "AdaBoostClassifier", "SGH">>

ds_methods_dcs == <<"OLA", "LCA", "MCB", "Rank">>

ds_methods_des ==
    <<"KNORAU", "KNORAE", "DESKNN", "DESP", "DESMI", "DESClustering",
      "METADES", "KNOP">>

ds_methods == baseline \o ds_methods_dcs \o ds_methods_des \o <<"Oracle">>

datasets == <<"HH103", "HH124", "HH129", "Kyoto2008", "Kyoto2009Spring">>

\* the value of a name that holds None or is not set yet
None == "None"

(***************************************************************************)
(* Helpers on sequences and matrices (a matrix is a sequence of rows).     *)
(***************************************************************************)
Min(a, b) == IF a <= b THEN a ELSE b

Max(a, b) == IF a >= b THEN a ELSE b

RECURSIVE SumSeq(_)
SumSeq(s) == IF s = <<>> THEN 0 ELSE Head(s) + SumSeq(Tail(s))

RECURSIVE SortedLabels(_)
\* the elements of a finite set of integers in increasing order
SortedLabels(S) ==
    IF S = {} THEN <<>>
    ELSE LET m == CHOOSE x \in S : \A y \in S : x <= y
         IN  <<m>> \o SortedLabels(S \ {m})

Range(s) == {s[i] : i \in DOMAIN s}

MatrixSum(m) == SumSeq([i \in DOMAIN m |-> SumSeq(m[i])])

(***************************************************************************)
(* The fold store: what load_dataset can return.  A dataset is the number  *)
(* of canonical classes (len(activities)), the labels of the encoding and  *)
(* the folds; a fold is given by its test labels (one per row of xTest).   *)
(***************************************************************************)
Labels == 0 .. MaxLabel

\* the fold sizes: 1..MaxFolds folds, at least one test example each
FoldSizes ==
    {s \in UNION {[1 .. F -> 1 .. MaxExamples] : F \in 1 .. MaxFolds} :
        SumSeq(s) <= MaxExamples}

Offset(sizes, f) == SumSeq(SubSeq(sizes, 1, f - 1))

\* the f-th piece of a flat sequence cut into pieces of the given sizes
Piece(flat, sizes, f) ==
    SubSeq(flat, Offset(sizes, f) + 1, Offset(sizes, f) + sizes[f])

Dataset(n, labels, sizes, flat) ==
    [activities |-> n,
     labels     |-> labels,
     folds      |-> [f \in DOMAIN sizes |-> [yTest |-> Piece(flat, sizes, f)]]]

NoDataset == [activities |-> 0, labels |-> {}, folds |-> <<>>]

\* the datasets the grid driver is explored over: folds of one test example
\* each, labels 0 and 1, one or two canonical classes
SmallStore ==
    UNION {{Dataset(n, {0, 1}, [f \in 1 .. F |-> 1], flat) :
                n \in {1, 2}, flat \in [1 .. F -> {0, 1}]} : F \in 1 .. MaxFolds}

(***************************************************************************)
(* State.                                                                  *)
(***************************************************************************)
VARIABLES
    pc,          \* where the driver is
    iteration,   \* index of the dataset in `datasets` (0-based, as in the code)
    noise,       \* the noise level of the `for noise in range(0, 6)` loop
    gi,          \* position of gen_method in gen_methods
    di,          \* position of ds_method in ds_methods
    store,       \* what load_dataset returned for the current dataset
    parameters,  \* the per-fold parameter bundles (the dicts of args_list)
    generation,  \* the pools map(process_generation, ...) has produced so far
    pool_clf,    \* the driver's list of pools, one per fold
    pool,        \* the multiprocessing Pool of experiment_selection
    running,     \* the folds whose process_selection call is in progress
    results,     \* the per-fold results map(process_selection, ...) has produced
    saved,       \* what save_metrics handed to plotting and persistence
    failure,     \* the exception that ended the program, if any
    evalLog,     \* history: what each process_selection call of the cell did
    peak,        \* history: most process_selection calls in progress at once in the cell
    genRound,    \* history: number of experiment_generation calls so far
    buildRound   \* history: number of experiment_parameters calls so far

vars ==
    <<pc, iteration, noise, gi, di, store, parameters, generation, pool_clf,
      pool, running, results, saved, failure, evalLog, peak, genRound, buildRound>>

NoPool == [workers |-> 0, submitted |-> 0, closed |-> TRUE]

NoSaved ==
    [cm |-> <<>>, predictions |-> <<>>, folds_name |-> <<>>, dfs |-> <<>>]

NoFailure == [stage |-> "none", fold |-> 0, error |-> "none"]

\* a classifier pool that is not there
NoClassifiers ==
    [gen |-> None, imb |-> None, fold |-> 0, round |-> 0, size |-> 0,
     calibrated |-> FALSE]

nFolds == Len(store.folds)

gen_method == gen_methods[gi]

ds_method == ds_methods[di]

FoldName(f) == <<"Fold_", f>>

(***************************************************************************)
(* experiment_parameters: one bundle per fold, with the training labels of *)
(* the noise level and the test labels.  `fold` and `y_level` stand for    *)
(* X_train, X_test and y_train (the fold's matrices and its label variant) *)
(* and `built` is the call that built the bundle.                          *)
(***************************************************************************)
experiment_parameters(folds, nz, round) ==
    [f \in DOMAIN folds |->
        [fold       |-> f,
         y_level    |-> nz,
         y_test     |-> folds[f].yTest,
         built      |-> round,
         gen_method |-> None,
         imb_method |-> None,
         pool_clf   |-> NoClassifiers,
         fold_name  |-> <<>>,
         noise      |-> -1,
         ds_method  |-> None,
         params     |-> 0]]

(***************************************************************************)
(* process_generation: the pool gen_ensemble returns for one bundle: 100   *)
(* perceptrons trained on the bundle's (possibly resampled) training set.  *)
(***************************************************************************)
process_generation(args, round) ==
    [gen        |-> args.gen_method,
     imb        |-> args.imb_method,
     fold       |-> args.fold,
     round      |-> round,
     size       |-> n_estimators,
     calibrated |-> FALSE]

\* the loop of experiment_generation: every bundle gets the two keys
GenerationArgs(ps, g, imb) ==
    [f \in DOMAIN ps |-> [ps[f] EXCEPT !.gen_method = g, !.imb_method = imb]]

(***************************************************************************)
(* process_selection.                                                      *)
(***************************************************************************)
\* confusion_matrix_score: a square matrix over the distinct labels of the
\* true and the predicted labels, in increasing order; entry (i, j) counts
\* the examples of true label i predicted as label j
confusion_matrix_score(y_test, predictions) ==
    LET labs == SortedLabels(Range(y_test) \cup Range(predictions))
    IN  [i \in DOMAIN labs |->
            [j \in DOMAIN labs |->
                Cardinality({t \in DOMAIN y_test :
                                y_test[t] = labs[i] /\ predictions[t] = labs[j]})]]

\* process_metrics, reduced to the accuracy: correct predictions and examples
process_metrics(y_test, predictions) ==
    [correct  |-> Cardinality({t \in DOMAIN y_test : y_test[t] = predictions[t]}),
     examples |-> Len(y_test)]

\* the pool is calibrated first: SGH with METADES or KNOP
NeedsCalibration(gen, method) ==
    gen = "SGH" /\ (method = "METADES" \/ method = "KNOP")

\* calibrated_pool: one CalibratedClassifierCV(cv='prefit') per member
CalibratedPool(clfs) == [clfs EXCEPT !.calibrated = TRUE]

\* the pool handed to ds_ensemble (none for the random forest)
PoolUsed(args) ==
    IF args.ds_method = "RandomForestClassifier" THEN NoClassifiers
    ELSE IF NeedsCalibration(args.gen_method, args.ds_method)
         THEN CalibratedPool(args.pool_clf)
         ELSE args.pool_clf

\* as PoolAfterSelection, were the calibrated members written back into the
\* list the driver holds
PoolAfterSelectionInPlace(args) ==
    IF args.ds_method # "RandomForestClassifier"
          /\ NeedsCalibration(args.gen_method, args.ds_method)
    THEN CalibratedPool(args.pool_clf)
    ELSE args.pool_clf

\* args['pool_clf'] once process_selection has returned: the calibrated list
\* is bound to the local name only
PoolAfterSelection(args) == args.pool_clf

\* as PassesTestLabels, were y_test given to every strategy but the baseline
PassesTestLabelsUnlessBaseline(method) == method # "RandomForestClassifier"

\* whether the final predict call is given y_test
PassesTestLabels(method) == method = "Oracle"

\* the predict calls of one evaluation, each by whether it was given y_test
PredictCalls(method) ==
    IF method = "RandomForestClassifier"
    THEN <<FALSE, PassesTestLabels(method)>>
    ELSE <<PassesTestLabels(method)>>

\* the predictions an ensemble can return: a known label per row of X_test
Predictions(args, labels) == [DOMAIN args.y_test -> labels]

\* the value process_selection returns
process_selection(args, predictions) ==
    <<args.fold_name,
      confusion_matrix_score(args.y_test, predictions),
      process_metrics(args.y_test, predictions),
      predictions>>

\* history of one process_selection call
SelectionTrace(args, predictions) ==
    [fold        |-> args.fold,
     built       |-> args.built,
     fold_name   |-> args.fold_name,
     ds_method   |-> args.ds_method,
     gen_method  |-> args.gen_method,
     params      |-> args.params,
     received    |-> args.pool_clf,
     used        |-> PoolUsed(args),
     predict     |-> PredictCalls(args.ds_method),
     y_test      |-> args.y_test,
     predictions |-> predictions,
     conf_matrix |-> confusion_matrix_score(args.y_test, predictions)]

(***************************************************************************)
(* experiment_selection.                                                   *)
(***************************************************************************)
\* zip(parameters, pool_gen) stops at the shorter list
JobCount(ps, pool_gen) == Min(Len(ps), Len(pool_gen))

\* as SelectionJobs, were the table of params indexed params[f][iteration]
SelectionJobsSwapped(ps, pool_gen, it, g, d, nz) ==
    [f \in DOMAIN ps |->
        IF f <= JobCount(ps, pool_gen)
        THEN [ps[f] EXCEPT !.pool_clf   = pool_gen[f],
                           !.fold_name  = FoldName(f),
                           !.noise      = nz,
                           !.ds_method  = d,
                           !.gen_method = g,
                           !.params     = params[f][it + 1]]
        ELSE ps[f]]

\* the loop of experiment_selection: the f-th bundle gets the f-th pool, its
\* fold name and the f-th entry of the dataset's row of params
SelectionJobs(ps, pool_gen, it, g, d, nz) ==
    [f \in DOMAIN ps |->
        IF f <= JobCount(ps, pool_gen)
        THEN [ps[f] EXCEPT !.pool_clf   = pool_gen[f],
                           !.fold_name  = FoldName(f),
                           !.noise      = nz,
                           !.ds_method  = d,
                           !.gen_method = g,
                           !.params     = params[it + 1][f]]
        ELSE ps[f]]

\* the job builtin map evaluates next: the one after the last result
NextJob(done) == Len(done) + 1

(***************************************************************************)
(* save_metrics.                                                           *)
(***************************************************************************)
\* [result.pop(0) for result in results]
PopFirst(rs) == [f \in DOMAIN rs |-> Head(rs[f])]

AfterPopFirst(rs) == [f \in DOMAIN rs |-> Tail(rs[f])]

\* [result.pop(-1) for result in results]
PopLast(rs) == [f \in DOMAIN rs |-> rs[f][Len(rs[f])]]

AfterPopLast(rs) == [f \in DOMAIN rs |-> SubSeq(rs[f], 1, Len(rs[f]) - 1)]

RECURSIVE ConcatenateReversed(_)
\* as Concatenate, were the folds joined last fold first
ConcatenateReversed(seqs) ==
    IF seqs = <<>> THEN <<>> ELSE ConcatenateReversed(Tail(seqs)) \o Head(seqs)

RECURSIVE Concatenate(_)
\* np.concatenate(list, axis=0)
Concatenate(seqs) ==
    IF seqs = <<>> THEN <<>> ELSE Head(seqs) \o Concatenate(Tail(seqs))

\* pd.DataFrame(0, index=np.arange(n), columns=activities_list)
ZeroFrame(n) == [i \in 1 .. n |-> [j \in 1 .. n |-> 0]]

\* as SetRow, were the column list the last len(row) names of activities_list
SetRowSuffix(data, i, row) ==
    [data EXCEPT ![i] =
        [j \in DOMAIN @ |->
            IF j > Len(@) - Len(row) THEN row[j - (Len(@) - Len(row))] ELSE @[j]]]

\* data.loc[i, activities_list[:len(row)]] = row
SetRow(data, i, row) ==
    [data EXCEPT ![i] = [j \in DOMAIN @ |-> IF j <= Len(row) THEN row[j] ELSE @[j]]]

\* the assignment raises ValueError when the row is longer than the column
\* list, which the slice cuts to n columns
SetRowRaises(n, row) == Len(row) > n

RECURSIVE EmbedRows(_, _, _)
\* for i, row in enumerate(cm): ... from row i on
EmbedRows(data, cm, i) ==
    IF i > Len(cm) THEN data ELSE EmbedRows(SetRow(data, i, cm[i]), cm, i + 1)

\* the frame appended to dfs for one fold
Embed(cm, n) == EmbedRows(ZeroFrame(n), cm, 1)

EmbedRaises(cm, n) == \E i \in DOMAIN cm : SetRowRaises(n, cm[i])

\* as MergeFrames, were the groups reduced with max() instead of sum()
MergeFramesMax(dfs, n) ==
    [i \in 1 .. n |->
        [j \in 1 .. n |->
            CHOOSE m \in {dfs[f][i][j] : f \in DOMAIN dfs} :
                \A f \in DOMAIN dfs : dfs[f][i][j] <= m]]

\* pd.concat(dfs, axis=0).groupby(level=0).sum().values
MergeFrames(dfs, n) ==
    [i \in 1 .. n |-> [j \in 1 .. n |-> SumSeq([f \in DOMAIN dfs |-> dfs[f][i][j]])]]

\* what save_metrics hands on, from the results list and len(activities_list)
save_metrics(rs, n) ==
    LET folds_name   == PopFirst(rs)
        rs1          == AfterPopFirst(rs)
        predictions  == Concatenate(PopLast(rs1))
        rs2          == AfterPopLast(rs1)
        confusion_mx == PopFirst(rs2)
        dfs          == [f \in DOMAIN confusion_mx |-> Embed(confusion_mx[f], n)]
    IN  [cm          |-> MergeFrames(dfs, n),
         predictions |-> predictions,
         folds_name  |-> folds_name,
         dfs         |-> dfs]

\* the results list once save_metrics has popped name, predictions and matrix
ResultsLeft(rs) == AfterPopFirst(AfterPopLast(AfterPopFirst(rs)))

save_metrics_raises(rs, n) ==
    \E f \in DOMAIN rs : EmbedRaises(PopFirst(AfterPopLast(AfterPopFirst(rs)))[f], n)

(***************************************************************************)
(* The driver (the __main__ block), one action per step.                   *)
(***************************************************************************)
Init ==
    /\ pc = "dataset"
    /\ iteration = 0
    /\ noise = 0
    /\ gi = 1
    /\ di = 1
    /\ store = NoDataset
    /\ parameters = <<>>
    /\ generation = <<>>
    /\ pool_clf = <<>>
    /\ pool = NoPool
    /\ running = {}
    /\ results = <<>>
    /\ saved = NoSaved
    /\ failure = NoFailure
    /\ evalLog = <<>>
    /\ peak = 0
    /\ genRound = 0
    /\ buildRound = 0

\* an exception nothing catches ends the program
Raise(stage, f, error) ==
    /\ pc' = "crashed"
    /\ failure' = [stage |-> stage, fold |-> f, error |-> error]

\* folds_list, activities, examples_by_class = load_dataset(dataset)
LoadDataset ==
    /\ pc = "dataset"
    /\ \E ds \in SmallStore : store' = ds
    /\ noise' = 0
    /\ pc' = "noise"
    /\ UNCHANGED <<iteration, gi, di, parameters, generation, pool_clf, pool,
                   running, results, saved, failure, evalLog, peak, genRound,
                   buildRound>>

\* parameters = experiment_parameters(folds_list, noise, examples_by_class)
ExperimentParameters ==
    /\ pc = "noise"
    /\ parameters' = experiment_parameters(store.folds, noise, buildRound + 1)
    /\ buildRound' = buildRound + 1
    /\ gi' = 1
    /\ pc' = "generate"
    /\ UNCHANGED <<iteration, noise, di, store, generation, pool_clf, pool,
                   running, results, saved, failure, evalLog, peak, genRound>>

\* experiment_generation(parameters, gen_method, None): the loop over the bundles
ExperimentGeneration ==
    /\ pc = "generate"
    /\ parameters' = GenerationArgs(parameters, gen_method, None)
    /\ generation' = <<>>
    /\ genRound' = genRound + 1
    /\ pc' = "generating"
    /\ UNCHANGED <<iteration, noise, gi, di, store, pool_clf, pool, running,
                   results, saved, failure, evalLog, peak, buildRound>>

\* one call of map(process_generation, generation), in list order
ProcessGeneration ==
    /\ pc = "generating"
    /\ Len(generation) < Len(parameters)
    /\ generation' =
          Append(generation,
                 process_generation(parameters[Len(generation) + 1], genRound))
    /\ UNCHANGED <<pc, iteration, noise, gi, di, store, parameters, pool_clf,
                   pool, running, results, saved, failure, evalLog, peak,
                   genRound, buildRound>>

\* balance_dataset or gen_ensemble raises for a fold
ProcessGenerationRaises ==
    /\ pc = "generating"
    /\ Len(generation) < Len(parameters)
    /\ Raise("generation", Len(generation) + 1, "data")
    /\ UNCHANGED <<iteration, noise, gi, di, store, parameters, generation,
                   pool_clf, pool, running, results, saved, evalLog, peak,
                   genRound, buildRound>>

\* pool_clf = experiment_generation(...) returns the list of pools
GenerationReturn ==
    /\ pc = "generating"
    /\ Len(generation) = Len(parameters)
    /\ pool_clf' = generation
    /\ generation' = <<>>
    /\ di' = 1
    /\ pc' = "select"
    /\ UNCHANGED <<iteration, noise, gi, store, parameters, pool, running,
                   results, saved, failure, evalLog, peak, genRound, buildRound>>

\* experiment_selection(...): Pool(5) and the loop that fills the jobs
ExperimentSelection ==
    /\ pc = "select"
    /\ pool' = [workers |-> PoolWorkers, submitted |-> 0, closed |-> FALSE]
    /\ results' = <<>>
    /\ evalLog' = <<>>
    /\ running' = {}
    /\ peak' = 0
    /\ saved' = NoSaved
    /\ IF JobCount(parameters, pool_clf) > Len(params[iteration + 1])
       THEN /\ Raise("jobs", Len(params[iteration + 1]) + 1, "IndexError")
            /\ UNCHANGED parameters
       ELSE /\ parameters' =
                  SelectionJobs(parameters, pool_clf, iteration, gen_method,
                                ds_method, noise)
            /\ pc' = "selecting"
            /\ UNCHANGED failure
    /\ UNCHANGED <<iteration, noise, gi, di, store, generation, pool_clf,
                   genRound, buildRound>>

\* builtin map calls process_selection for the next job once the call before
\* it has returned
MapMayStart(inProgress) == inProgress = {}

StartProcessSelection ==
    /\ pc = "selecting"
    /\ MapMayStart(running)
    /\ NextJob(results) <= JobCount(parameters, pool_clf)
    /\ running' = running \cup {NextJob(results)}
    /\ peak' = Max(peak, Cardinality(running'))
    /\ UNCHANGED <<pc, iteration, noise, gi, di, store, parameters, generation,
                   pool_clf, pool, results, saved, failure, evalLog, genRound,
                   buildRound>>

\* a process_selection call returns [fold_name, conf_matrix, metrics, predictions]
FinishProcessSelection ==
    /\ pc = "selecting"
    /\ \E f \in running :
          /\ \E predictions \in Predictions(parameters[f], store.labels) :
                /\ results' = Append(results, process_selection(parameters[f], predictions))
                /\ evalLog' = Append(evalLog, SelectionTrace(parameters[f], predictions))
          /\ running' = running \ {f}
          /\ parameters' =
                [parameters EXCEPT ![f].pool_clf = PoolAfterSelection(parameters[f])]
          /\ pool_clf' = [pool_clf EXCEPT ![f] = PoolAfterSelection(parameters[f])]
    /\ UNCHANGED <<pc, iteration, noise, gi, di, store, generation, pool, saved,
                   failure, peak, genRound, buildRound>>

\* a process_selection call raises (calibration, fit or predict fails)
ProcessSelectionRaises ==
    /\ pc = "selecting"
    /\ \E f \in running : Raise("selection", f, "data")
    /\ UNCHANGED <<iteration, noise, gi, di, store, parameters, generation,
                   pool_clf, pool, running, results, saved, evalLog, peak,
                   genRound, buildRound>>

\* results = list(map(...)) is complete: pool.close(); return results
SelectionReturn ==
    /\ pc = "selecting"
    /\ running = {}
    /\ Len(results) = JobCount(parameters, pool_clf)
    /\ pool' = [pool EXCEPT !.closed = TRUE]
    /\ pc' = "save"
    /\ UNCHANGED <<iteration, noise, gi, di, store, parameters, generation,
                   pool_clf, running, results, saved, failure, evalLog, peak,
                   genRound, buildRound>>

\* save_metrics(dataset, results, activities, ...)
SaveMetrics ==
    /\ pc = "save"
    /\ results' = ResultsLeft(results)
    /\ IF save_metrics_raises(results, store.activities)
       THEN /\ Raise("save", 0, "ValueError")
            /\ UNCHANGED saved
       ELSE /\ saved' = save_metrics(results, store.activities)
            /\ pc' = "next"
            /\ UNCHANGED failure
    /\ UNCHANGED <<iteration, noise, gi, di, store, parameters, generation,
                   pool_clf, pool, running, evalLog, peak, genRound, buildRound>>

\* as NextDsMethod, were the pools generated inside the selection loop
NextDsMethodRegenerates ==
    /\ pc = "next"
    /\ di < Len(ds_methods)
    /\ di' = di + 1
    /\ pc' = "generate"
    /\ UNCHANGED <<iteration, noise, gi, store, parameters, generation, pool_clf,
                   pool, running, results, saved, failure, evalLog, peak,
                   genRound, buildRound>>

\* for ds_method in ds_methods: the next selection method
NextDsMethod ==
    /\ pc = "next"
    /\ di < Len(ds_methods)
    /\ di' = di + 1
    /\ pc' = "select"
    /\ UNCHANGED <<iteration, noise, gi, store, parameters, generation, pool_clf,
                   pool, running, results, saved, failure, evalLog, peak,
                   genRound, buildRound>>

\* for gen_method in gen_methods: the next generation method
NextGenMethod ==
    /\ pc = "next"
    /\ di = Len(ds_methods)
    /\ gi < Len(gen_methods)
    /\ gi' = gi + 1
    /\ pc' = "generate"
    /\ UNCHANGED <<iteration, noise, di, store, parameters, generation, pool_clf,
                   pool, running, results, saved, failure, evalLog, peak,
                   genRound, buildRound>>

\* the noise levels and the datasets the driver goes through
LastNoise == Min(NoiseLevels, MaxNoise) - 1

LastDataset == Min(Len(datasets), MaxDatasets) - 1

\* for noise in range(0, 6): the next noise level
NextNoise ==
    /\ pc = "next"
    /\ di = Len(ds_methods)
    /\ gi = Len(gen_methods)
    /\ noise < LastNoise
    /\ noise' = noise + 1
    /\ pc' = "noise"
    /\ UNCHANGED <<iteration, gi, di, store, parameters, generation, pool_clf,
                   pool, running, results, saved, failure, evalLog, peak,
                   genRound, buildRound>>

\* for iteration, dataset in enumerate(datasets): the next dataset
NextDataset ==
    /\ pc = "next"
    /\ di = Len(ds_methods)
    /\ gi = Len(gen_methods)
    /\ noise = LastNoise
    /\ iteration < LastDataset
    /\ iteration' = iteration + 1
    /\ pc' = "dataset"
    /\ UNCHANGED <<noise, gi, di, store, parameters, generation, pool_clf,
                   pool, running, results, saved, failure, evalLog, peak,
                   genRound, buildRound>>

\* the loops are exhausted
Finish ==
    /\ pc = "next"
    /\ di = Len(ds_methods)
    /\ gi = Len(gen_methods)
    /\ noise = LastNoise
    /\ iteration = LastDataset
    /\ pc' = "done"
    /\ UNCHANGED <<iteration, noise, gi, di, store, parameters, generation,
                   pool_clf, pool, running, results, saved, failure, evalLog,
                   peak, genRound, buildRound>>

Next ==
    \/ LoadDataset
    \/ ExperimentParameters
    \/ ExperimentGeneration
    \/ ProcessGeneration
    \/ ProcessGenerationRaises
    \/ GenerationReturn
    \/ ExperimentSelection
    \/ StartProcessSelection
    \/ FinishProcessSelection
    \/ ProcessSelectionRaises
    \/ SelectionReturn
    \/ SaveMetrics
    \/ NextDsMethod
    \/ NextGenMethod
    \/ NextNoise
    \/ NextDataset
    \/ Finish

Spec == Init /\ [][Next]_vars

(***************************************************************************)
(* save_metrics on its own: the state in which the driver enters the first *)
(* save_metrics call of a run (first dataset, noise level, generation and  *)
(* selection method), for every dataset of the bounded fold store and      *)
(* every prediction the fold evaluations can have returned.                *)
(***************************************************************************)
\* the state at pc = "save" of the first cell, from the dataset and the
\* predictions of each fold
FirstSaveEntry(ds, preds) ==
    LET built == GenerationArgs(experiment_parameters(ds.folds, 0, 1),
                                gen_methods[1], None)
        pools == [f \in DOMAIN built |-> process_generation(built[f], 1)]
        jobs  == SelectionJobs(built, pools, 0, gen_methods[1], ds_methods[1], 0)
    IN  /\ pc = "save"
        /\ iteration = 0
        /\ noise = 0
        /\ gi = 1
        /\ di = 1
        /\ store = ds
        /\ parameters = jobs
        /\ generation = <<>>
        /\ pool_clf = pools
        /\ pool = [workers |-> PoolWorkers, submitted |-> 0, closed |-> TRUE]
        /\ running = {}
        /\ results = [f \in DOMAIN jobs |-> process_selection(jobs[f], preds[f])]
        /\ saved = NoSaved
        /\ failure = NoFailure
        /\ evalLog = [f \in DOMAIN jobs |-> SelectionTrace(jobs[f], preds[f])]
        /\ peak = 1
        /\ genRound = 1
        /\ buildRound = 1

InitAgg ==
    \E n \in 1 .. MaxClasses, sizes \in FoldSizes :
        \E flat \in [1 .. SumSeq(sizes) -> Labels \X Labels] :
            FirstSaveEntry(
                Dataset(n, Labels, sizes, [t \in DOMAIN flat |-> flat[t][1]]),
                [f \in DOMAIN sizes |->
                    Piece([t \in DOMAIN flat |-> flat[t][2]], sizes, f)])

NextAgg == SaveMetrics

SpecAgg == InitAgg /\ [][NextAgg]_vars

\* The driver enters its first save_metrics call in a state of InitAgg's shape.
FirstSaveEntryShape ==
    (pc = "save" /\ buildRound = 1 /\ genRound = 1 /\ di = 1) =>
        FirstSaveEntry(store, [f \in DOMAIN evalLog |-> evalLog[f].predictions])

(***************************************************************************)
(* Properties.                                                             *)
(***************************************************************************)
\* the confusion matrix process_selection returned for fold f of the cell
FoldMatrix(f) == evalLog[f].conf_matrix

\* the labels fold f observed: those of its test set and of its predictions
ObservedLabels(f) == Range(evalLog[f].y_test) \cup Range(evalLog[f].predictions)

\* a k x k matrix placed in the top-left corner of a zero n x n matrix
EmbeddedInZero(cm, n) ==
    [i \in 1 .. n |->
        [j \in 1 .. n |-> IF i <= Len(cm) /\ j <= Len(cm) THEN cm[i][j] ELSE 0]]

\* the top-left k x k block of a matrix
TopLeft(m, k) == [i \in 1 .. k |-> [j \in 1 .. k |-> m[i][j]]]

TestExamples == SumSeq([f \in DOMAIN store.folds |-> Len(store.folds[f].yTest)])

FoldsFit == \A f \in DOMAIN evalLog : Len(FoldMatrix(f)) <= store.activities

\* C1: when every fold matrix has at most n rows, the merged confusion matrix
\* is the element-wise sum of the fold matrices, each placed in a zero n x n
\* matrix, and its entries add up to the number of test examples of the folds.
C1_AggregationAdditivity ==
    (pc = "next" /\ FoldsFit) =>
        /\ saved.cm =
              [i \in 1 .. store.activities |->
                  [j \in 1 .. store.activities |->
                      SumSeq([f \in DOMAIN evalLog |->
                                 EmbeddedInZero(FoldMatrix(f), store.activities)[i][j]])]]
        /\ MatrixSum(saved.cm) = TestExamples

\* two folds, the first smaller than the canonical size and the second of the
\* canonical size, with a merged count of two
C1_Witness ==
    /\ pc = "next"
    /\ Len(evalLog) = 2
    /\ Len(FoldMatrix(1)) < store.activities
    /\ Len(FoldMatrix(2)) = store.activities
    /\ FoldMatrix(2)[1][2] = 1
    /\ saved.cm[1][1] = 2

\* C2: the frame save_metrics builds for a fold matrix of size k <= n is n x n,
\* its top-left k x k block is the fold matrix and every other entry is 0.
C2_PrefixEmbedding ==
    pc = "next" =>
        \A f \in DOMAIN evalLog :
            LET k == Len(FoldMatrix(f))
                n == store.activities
            IN  k <= n =>
                  /\ Len(saved.dfs[f]) = n
                  /\ \A i \in 1 .. n : Len(saved.dfs[f][i]) = n
                  /\ TopLeft(saved.dfs[f], k) = FoldMatrix(f)
                  /\ \A i, j \in 1 .. n :
                        (i > k \/ j > k) => saved.dfs[f][i][j] = 0

\* a fold matrix smaller than the canonical size with a count of two has been
\* embedded, next to a fold matrix of the canonical size
C2_Witness ==
    /\ pc = "next"
    /\ \E f, g \in DOMAIN evalLog :
          /\ Len(FoldMatrix(f)) < store.activities
          /\ FoldMatrix(f)[1][1] = 2
          /\ Len(FoldMatrix(g)) = store.activities
          /\ saved.dfs[g][2][1] = 1

\* C3: the concatenated predictions are as many as the test examples of the
\* folds and hold fold 1's predictions, then fold 2's, ..., each in its order.
C3_PredictionAlignment ==
    pc = "next" =>
        LET sizes == [f \in DOMAIN store.folds |-> Len(store.folds[f].yTest)]
        IN  /\ Len(saved.predictions) = SumSeq(sizes)
            /\ \A f \in DOMAIN evalLog :
                  \A t \in DOMAIN evalLog[f].predictions :
                      saved.predictions[Offset(sizes, f) + t] = evalLog[f].predictions[t]

\* two folds of two and one predictions, where the order shows
C3_Witness ==
    /\ pc = "next"
    /\ Len(evalLog) = 2
    /\ evalLog[1].predictions = <<1, 0>>
    /\ evalLog[2].predictions = <<1>>
    /\ saved.predictions = <<1, 0, 1>>

\* C4: the list experiment_selection builds holds the results in fold order:
\* its f-th element is named Fold_f (1-based), comes from the f-th bundle and
\* the f-th pool, and its bundle carries params[dataset][f].
C4_ResultsInFoldOrder ==
    pc \in {"selecting", "save"} =>
        /\ Len(results) = Len(evalLog)
        /\ pc = "save" => Len(results) = nFolds
        /\ \A f \in DOMAIN results :
              /\ results[f][1] = <<"Fold_", f>>
              /\ evalLog[f].fold = f
              /\ evalLog[f].y_test = store.folds[f].yTest
              /\ results[f][2] = evalLog[f].conf_matrix
              /\ results[f][4] = evalLog[f].predictions
              /\ evalLog[f].received = pool_clf[f]
              /\ pool_clf[f].fold = f
              /\ evalLog[f].params = params[iteration + 1][f]

\* the baseline's results of two folds of the second dataset are returned
C4_Witness ==
    /\ pc = "save"
    /\ iteration = 1
    /\ ds_method = "RandomForestClassifier"
    /\ Len(results) = 2
    /\ evalLog[2].params = 60

\* C5: when the evaluation or the generation of a fold fails with a data
\* error, the other folds are still evaluated and the cell yields a result
\* set of exactly the folds that did not fail.
C5_FoldFailureIsolated ==
    (pc \in {"crashed", "done"} /\ failure.error = "data") =>
        /\ Len(saved.folds_name) = nFolds - 1
        /\ \A f \in 1 .. nFolds :
              f # failure.fold => \E g \in DOMAIN saved.folds_name :
                                      saved.folds_name[g] = <<"Fold_", f>>

\* C6: the fold evaluations of a cell of two or more folds run concurrently,
\* on at most 5 workers at once.
C6_ConcurrentBoundedPool ==
    (pc = "save" /\ nFolds >= 2) => (peak >= 2 /\ peak <= PoolWorkers)

\* the fold evaluations run one at a time, and the pool is given no task
SequentialMap == Cardinality(running) <= 1 /\ pool.submitted = 0

\* C7: a fold matrix larger than the canonical class count, or a fold whose
\* labels are not the first labels of the canonical order, makes save_metrics
\* fail: no merged matrix is produced.
C7_InvariantViolationIsFatal ==
    (pc \in {"next", "crashed"}
        /\ \E f \in DOMAIN evalLog :
              \/ Len(FoldMatrix(f)) > store.activities
              \/ ObservedLabels(f) # 0 .. (Len(FoldMatrix(f)) - 1))
    => (pc = "crashed" /\ saved = NoSaved)

\* a fold matrix larger than the canonical class count does make save_metrics
\* fail
OversizeIsFatal ==
    (pc \in {"next", "crashed"} /\ ~FoldsFit) => (pc = "crashed" /\ saved = NoSaved)

\* the folds evaluated so far in the cell the driver is in
Evaluated == IF pc \in {"selecting", "save", "next"} THEN DOMAIN evalLog ELSE {}

\* C8: a predict call is given the test labels exactly when the selection
\* strategy is the oracle.
C8_TestLabelsOnlyForOracle ==
    \A f \in DOMAIN evalLog :
        /\ Len(evalLog[f].predict) >= 1
        /\ \A c \in DOMAIN evalLog[f].predict :
              evalLog[f].predict[c] <=> (evalLog[f].ds_method = "Oracle")

\* the oracle has been evaluated, and was given the test labels
C8_Witness ==
    /\ pc = "save"
    /\ ds_method = "Oracle"
    /\ evalLog[1].ds_method = "Oracle"
    /\ evalLog[1].predict = <<TRUE>>

\* C9: a calibrated pool has as many members as the pool it was made from and
\* is used for the one evaluation: the pools the driver holds stay as they
\* were generated, and every evaluation receives the pool of its fold as
\* generated.
C9_CalibrationLeavesPoolUnchanged ==
    /\ \A f \in DOMAIN pool_clf : ~pool_clf[f].calibrated
    /\ \A f \in Evaluated :
          /\ evalLog[f].received = pool_clf[f]
          /\ ~evalLog[f].received.calibrated
          /\ parameters[f].pool_clf = pool_clf[f]
          /\ evalLog[f].used.calibrated =>
                /\ evalLog[f].used.size = evalLog[f].received.size
                /\ evalLog[f].used = [evalLog[f].received EXCEPT !.calibrated = TRUE]

\* KNOP, evaluated after METADES on the pools of SGH, received the pool as
\* generated and calibrated it for its own use
C9_Witness ==
    /\ pc = "save"
    /\ gen_method = "SGH"
    /\ ds_method = "KNOP"
    /\ Len(evalLog) = 2
    /\ evalLog[2].used.calibrated
    /\ ~evalLog[2].received.calibrated
    /\ evalLog[2].used.size = n_estimators

\* the driver is in the selection loop of a generation method
InSelection == pc \in {"select", "selecting", "save", "next"}

\* C10: per (dataset, noise level, generation method) one pool is generated
\* per fold, all of them before the first evaluation; every selection method
\* receives the pool of its fold; the bundles are built once per (dataset,
\* noise level).
C10_PoolsGeneratedOncePerFold ==
    /\ pc \notin {"dataset", "noise"} =>
          /\ buildRound = iteration * (LastNoise + 1) + noise + 1
          /\ Len(parameters) = nFolds
          /\ \A f \in DOMAIN parameters :
                parameters[f].built = buildRound /\ parameters[f].fold = f
    /\ pc \in {"generating"} \cup {"select", "selecting", "save", "next"} =>
          genRound = (buildRound - 1) * Len(gen_methods) + gi
    /\ InSelection =>
          /\ generation = <<>>
          /\ Len(pool_clf) = nFolds
          /\ \A f \in DOMAIN pool_clf :
                pool_clf[f] = [gen |-> gen_method, imb |-> None, fold |-> f,
                               round |-> genRound, size |-> n_estimators,
                               calibrated |-> FALSE]
    /\ pc \in {"dataset", "noise", "generate", "generating"} => running = {}
    /\ \A f \in Evaluated :
          /\ evalLog[f].received = pool_clf[f]
          /\ evalLog[f].built = buildRound

\* the last selection method of the last generation method of the second
\* noise level has been evaluated on two folds
C10_Witness ==
    /\ pc = "save"
    /\ noise = 1
    /\ gi = Len(gen_methods)
    /\ di = Len(ds_methods)
    /\ Len(evalLog) = 2
    /\ genRound = 6

====
